---------------------------- MODULE Spec2Model ----------------------------
(***************************************************************************)
(* Model of the nft-Marketplace-backend canister: the certified HTTP       *)
(* asset path (src/http.rs: HASHES, http_request, add_hash, witness) and   *)
(* the DIP-721 registry (src/lib.rs).                                      *)
(*                                                                         *)
(* Text (urls, tree keys, bodies) is a sequence of one-character strings,  *)
(* so that format!(), str::parse, split and percent-decoding are real      *)
(* conversions and tree keys compare bytewise as String does.              *)
(* Hashes are terms of a free algebra (collision-free SHA-256).            *)
(***************************************************************************)
EXTENDS Integers, Sequences, FiniteSets, TLC

\* ------------------------------------------------------------------ bounds
\* Items the registry may hold, and metadata parts over all items together.
MaxItems == 2
MaxTotalParts == 2
\* Tokens lib.rs::mint may create.
MaxTokens == 2

\* ------------------------------------------------------------------ text
None == <<>>
Some(v) == <<v>>

\* Byte value of the characters that occur in the model.
Ord(c) ==
  CASE c = " " -> 32 [] c = "%" -> 37 [] c = "+" -> 43 [] c = "-" -> 45
    [] c = "/" -> 47 [] c = "0" -> 48 [] c = "1" -> 49 [] c = "2" -> 50
    [] c = "3" -> 51 [] c = "4" -> 52 [] c = "5" -> 53 [] c = "6" -> 54
    [] c = "7" -> 55 [] c = "8" -> 56 [] c = "9" -> 57 [] c = ":" -> 58
    [] c = "?" -> 63 [] c = "F" -> 70 [] c = "a" -> 97 [] c = "f" -> 102
    [] c = "x" -> 120 [] c = "y" -> 121
    [] OTHER -> 128

\* Bytewise lexicographic order of two texts: -1, 0 or 1 (Ord::cmp on [u8]).
RECURSIVE Cmp(_, _)
Cmp(a, b) ==
  IF a = <<>> /\ b = <<>> THEN 0
  ELSE IF a = <<>> THEN -1
  ELSE IF b = <<>> THEN 1
  ELSE IF Ord(Head(a)) < Ord(Head(b)) THEN -1
  ELSE IF Ord(Head(a)) > Ord(Head(b)) THEN 1
  ELSE Cmp(Tail(a), Tail(b))

Digits == <<"0", "1", "2", "3", "4", "5", "6", "7", "8", "9">>

IsDigit(c) == c \in {"0", "1", "2", "3", "4", "5", "6", "7", "8", "9"}

DigitVal(c) == Ord(c) - Ord("0")

\* Display of an unsigned integer, as format!("{}", n) writes it.
RECURSIVE Dec(_)
Dec(n) == IF n < 10 THEN <<Digits[n + 1]>> ELSE Dec(n \div 10) \o <<Digits[(n % 10) + 1]>>

\* usize::MAX on the wasm32 target of a canister, in decimal.
UsizeMaxDec == <<"4", "2", "9", "4", "9", "6", "7", "2", "9", "5">>

RECURSIVE StripZeros(_)
StripZeros(s) == IF Len(s) > 1 /\ Head(s) = "0" THEN StripZeros(Tail(s)) ELSE s

\* Whether a digit string exceeds usize::MAX (PosOverflow).
Overflows(s) ==
  LET t == StripZeros(s)
  IN  Len(t) > Len(UsizeMaxDec) \/ (Len(t) = Len(UsizeMaxDec) /\ Cmp(t, UsizeMaxDec) > 0)

RECURSIVE DigitsValue(_, _)
DigitsValue(s, acc) ==
  IF s = <<>> THEN acc ELSE DigitsValue(Tail(s), acc * 10 + DigitVal(Head(s)))

\* str::parse::<usize>(): an optional leading '+', then one or more decimal
\* digits, no overflow. -1 stands for Err.
ParseUsize(s) ==
  LET t == IF s # <<>> /\ Head(s) = "+" THEN Tail(s) ELSE s
  IN  IF t = <<>> \/ (\E i \in 1..Len(t) : ~IsDigit(t[i])) \/ Overflows(t) THEN -1
      ELSE DigitsValue(t, 0)

\* s.split(sep): the pieces of s between occurrences of sep (at least one piece).
RECURSIVE SplitAcc(_, _, _)
SplitAcc(s, sep, cur) ==
  IF s = <<>> THEN <<cur>>
  ELSE IF Head(s) = sep THEN <<cur>> \o SplitAcc(Tail(s), sep, <<>>)
  ELSE SplitAcc(Tail(s), sep, Append(cur, Head(s)))

Split(s, sep) == SplitAcc(s, sep, <<>>)

HexVal(c) ==
  IF IsDigit(c) THEN DigitVal(c)
  ELSE IF c \in {"a", "A"} THEN 10 ELSE IF c \in {"b", "B"} THEN 11
  ELSE IF c \in {"c", "C"} THEN 12 ELSE IF c \in {"d", "D"} THEN 13
  ELSE IF c \in {"e", "E"} THEN 14 ELSE IF c \in {"f", "F"} THEN 15
  ELSE -1

\* The character of a byte value, for the bytes a decoded url of the model holds.
Chr(n) ==
  CASE n = 43 -> "+" [] n = 47 -> "/" [] n = 63 -> "?" [] n = 97 -> "a"
    [] n \in 48..57 -> Digits[n - 47]
    [] OTHER -> "."

\* percent_decode_str(segment).decode_utf8(): "%XY" with two hex digits becomes
\* the byte XY, everything else is kept.
RECURSIVE PercentDecode(_)
PercentDecode(s) ==
  IF s = <<>> THEN <<>>
  ELSE IF Head(s) = "%" /\ Len(s) >= 3 /\ HexVal(s[2]) >= 0 /\ HexVal(s[3]) >= 0
       THEN <<Chr(16 * HexVal(s[2]) + HexVal(s[3]))>> \o PercentDecode(SubSeq(s, 4, Len(s)))
  ELSE <<Head(s)>> \o PercentDecode(Tail(s))

\* ---------------------------------------------------------------- hashes
\* SHA-256 and the hash-tree hashes of ic_certified_map, as injective
\* constructors: two hashes are equal exactly when they were built alike.
Sha256(bytes) == <<"sha256", bytes>>

leaf_hash(content) == <<"leaf", content>>

labeled_hash(label, content_hash) == <<"labeled", label, content_hash>>

fork_hash(l, r) == <<"fork", l, r>>

EmptyHash == <<"empty">>

\* b"http_assets"
HttpAssetsLabel == <<"h", "t", "t", "p", "_", "a", "s", "s", "e", "t", "s">>

\* ------------------------------------------------- RbTree<String, Hash>
\* ic_certified_map::RbTree: a left-leaning red-black tree whose hash tree
\* has the shape of the search tree. A node caches the hash of its subtree.
Nil == [nil |-> TRUE]

IsRed(h) == ~h.nil /\ h.red

\* Node::data_hash: the labeled leaf of one entry.
data_hash(n) == labeled_hash(n.key, leaf_hash(n.value))

\* Node::compute_subtree_hash
compute_subtree_hash(n) ==
  LET h == data_hash(n)
  IN  IF n.left.nil /\ n.right.nil THEN h
      ELSE IF n.right.nil THEN fork_hash(n.left.subtree_hash, h)
      ELSE IF n.left.nil THEN fork_hash(h, n.right.subtree_hash)
      ELSE fork_hash(n.left.subtree_hash, fork_hash(h, n.right.subtree_hash))

update_subtree_hash(n) == [n EXCEPT !.subtree_hash = compute_subtree_hash(n)]

\* Node::new: a red leaf.
NewNode(k, v) ==
  [nil |-> FALSE, key |-> k, value |-> v, left |-> Nil, right |-> Nil,
   red |-> TRUE, subtree_hash |-> labeled_hash(k, leaf_hash(v))]

rotate_left(h) ==
  LET x  == h.right
      h1 == update_subtree_hash([h EXCEPT !.right = x.left, !.red = TRUE])
  IN  update_subtree_hash([x EXCEPT !.left = h1, !.red = h.red])

rotate_right(h) ==
  LET x  == h.left
      h1 == update_subtree_hash([h EXCEPT !.left = x.right, !.red = TRUE])
  IN  update_subtree_hash([x EXCEPT !.right = h1, !.red = h.red])

flip_colors(h) ==
  [h EXCEPT !.red = ~h.red, !.left.red = ~h.left.red, !.right.red = ~h.right.red]

balance(h) ==
  LET h1 == IF IsRed(h.right) /\ ~IsRed(h.left) THEN rotate_left(h) ELSE h
      h2 == IF IsRed(h1.left) /\ IsRed(h1.left.left) THEN rotate_right(h1) ELSE h1
  IN  IF IsRed(h2.left) /\ IsRed(h2.right) THEN flip_colors(h2) ELSE h2

\* The recursive descent of RbTree::insert: an equal key has its value
\* overwritten; the hashes and the balance are restored on the way up.
RECURSIVE InsertGo(_, _, _)
InsertGo(h, k, v) ==
  IF h.nil THEN NewNode(k, v)
  ELSE LET c  == Cmp(k, h.key)
           h1 == IF c = 0 THEN [h EXCEPT !.value = v]
                 ELSE IF c < 0 THEN [h EXCEPT !.left = InsertGo(h.left, k, v)]
                 ELSE [h EXCEPT !.right = InsertGo(h.right, k, v)]
       IN  balance(update_subtree_hash(h1))

\* RbTree::insert: the root is black.
RbInsert(t, k, v) == [InsertGo(t, k, v) EXCEPT !.red = FALSE]

\* RbTree::get: None, or Some(value).
RECURSIVE RbGet(_, _)
RbGet(t, k) ==
  IF t.nil THEN None
  ELSE LET c == Cmp(k, t.key)
       IN  IF c = 0 THEN Some(t.value)
           ELSE IF c < 0 THEN RbGet(t.left, k) ELSE RbGet(t.right, k)

\* AsHashTree::root_hash
root_hash(t) == IF t.nil THEN EmptyHash ELSE t.subtree_hash

\* The (key, value) pairs a tree holds.
RECURSIVE Entries(_)
Entries(t) ==
  IF t.nil THEN {} ELSE Entries(t.left) \cup {<<t.key, t.value>>} \cup Entries(t.right)

\* ------------------------------------------------------------ witnesses
\* HashTree of ic_certified_map, and the hash a verifier reconstructs from it.
Empty == <<"Empty">>

Pruned(h) == <<"Pruned", h>>

Leaf(v) == <<"Leaf", v>>

Labeled(l, t) == <<"Labeled", l, t>>

Fork(l, r) == <<"Fork", l, r>>

RECURSIVE reconstruct(_)
reconstruct(t) ==
  CASE t[1] = "Empty" -> EmptyHash
    [] t[1] = "Pruned" -> t[2]
    [] t[1] = "Leaf" -> leaf_hash(t[2])
    [] t[1] = "Labeled" -> labeled_hash(t[2], reconstruct(t[3]))
    [] t[1] = "Fork" -> fork_hash(reconstruct(t[2]), reconstruct(t[3]))

three_way_fork(l, m, r) ==
  IF l = Empty /\ r = Empty THEN m
  ELSE IF r = Empty THEN Fork(l, m)
  ELSE IF l = Empty THEN Fork(m, r)
  ELSE IF l[1] = "Pruned" /\ m[1] = "Pruned" /\ r[1] = "Pruned"
       THEN Pruned(fork_hash(l[2], fork_hash(m[2], r[2])))
  ELSE IF m[1] = "Pruned" /\ r[1] = "Pruned" THEN Fork(l, Pruned(fork_hash(m[2], r[2])))
  ELSE Fork(l, Fork(m, r))

\* Node::left_hash_tree / right_hash_tree: a subtree, pruned.
hash_tree_of(n) == IF n.nil THEN Empty ELSE Pruned(n.subtree_hash)

\* RbTree::lookup_and_build_witness: None when the key is absent.
RECURSIVE lookup_and_build_witness(_, _)
lookup_and_build_witness(n, key) ==
  IF n.nil THEN None
  ELSE LET c == Cmp(key, n.key)
       IN  IF c = 0
           THEN Some(three_way_fork(hash_tree_of(n.left),
                                    Labeled(n.key, Leaf(n.value)),
                                    hash_tree_of(n.right)))
           ELSE IF c < 0
           THEN LET sub == lookup_and_build_witness(n.left, key)
                IN  IF sub = None THEN None
                    ELSE Some(three_way_fork(sub[1], Pruned(data_hash(n)), hash_tree_of(n.right)))
           ELSE LET sub == lookup_and_build_witness(n.right, key)
                IN  IF sub = None THEN None
                    ELSE Some(three_way_fork(hash_tree_of(n.left), Pruned(data_hash(n)), sub[1]))

\* RbTree::lower_bound / upper_bound: the largest key below, and the smallest
\* key above, a key.
RECURSIVE lower_bound(_, _)
lower_bound(n, key) ==
  IF n.nil THEN None
  ELSE IF Cmp(n.key, key) < 0
       THEN LET r == lower_bound(n.right, key) IN IF r = None THEN Some(n.key) ELSE r
  ELSE lower_bound(n.left, key)

RECURSIVE upper_bound(_, _)
upper_bound(n, key) ==
  IF n.nil THEN None
  ELSE IF Cmp(n.key, key) > 0
       THEN LET l == upper_bound(n.left, key) IN IF l = None THEN Some(n.key) ELSE l
  ELSE upper_bound(n.right, key)

\* RbTree::range_witness for an absent key: the neighbouring keys are shown
\* with their values pruned, every other subtree is pruned.
RECURSIVE range_witness(_, _, _)
range_witness(n, lo, hi) ==
  IF n.nil THEN Empty
  ELSE LET shown == (lo # None /\ n.key = lo[1]) \/ (hi # None /\ n.key = hi[1])
           goLeft == (lo # None /\ Cmp(lo[1], n.key) < 0) \/ (hi # None /\ Cmp(hi[1], n.key) < 0)
           goRight == (hi # None /\ Cmp(n.key, hi[1]) < 0) \/ (lo # None /\ Cmp(n.key, lo[1]) < 0)
       IN  IF ~shown /\ ~goLeft /\ ~goRight THEN Pruned(n.subtree_hash)
           ELSE three_way_fork(
                  IF goLeft THEN range_witness(n.left, lo, hi) ELSE hash_tree_of(n.left),
                  IF shown THEN Labeled(n.key, Pruned(leaf_hash(n.value)))
                           ELSE Pruned(data_hash(n)),
                  IF goRight THEN range_witness(n.right, lo, hi) ELSE hash_tree_of(n.right))

\* Mutant of RbWitness: for an absent key only the neighbour below is shown.
RbWitness_LowerOnly(t, key) ==
  LET found == lookup_and_build_witness(t, key)
  IN  IF found # None THEN found[1]
      ELSE range_witness(t, lower_bound(t, key), None)

\* RbTree::witness
RbWitness(t, key) ==
  LET found == lookup_and_build_witness(t, key)
  IN  IF found # None THEN found[1]
      ELSE range_witness(t, lower_bound(t, key), upper_bound(t, key))

\* base64::encode, and the self-describing CBOR encoding of a hash tree.
Base64(bytes) == <<"base64", bytes>>

Cbor(tree) == <<"cbor", tree>>

\* ------------------------------------------------------------- inputs
\* Principal::anonymous() and two other callers.
Anonymous == "anonymous"

Principals == {Anonymous, "alice", "bob"}

\* Metadata values handed to mint.
Metadatas == {[name |-> "n1", description |-> "d1", media_url |-> "u1"]}

\* Metadata parts handed to item creation and to append: two payloads, both
\* purposes, with and without a contentType annotation.
TextPlain == Some([kind |-> "TextContent", val |-> "text/plain"])

PartInputs ==
  {[data |-> <<"x">>, purpose |-> "Rendered", contentType |-> TextPlain],
   [data |-> <<"y">>, purpose |-> "Rendered", contentType |-> None],
   [data |-> <<"x">>, purpose |-> "Preview", contentType |-> TextPlain],
   [data |-> <<"y">>, purpose |-> "Preview", contentType |-> None]}

\* Sequences of at most n part inputs.
PartSeqs(n) == UNION {[1..k -> PartInputs] : k \in 0..n}

\* Request urls: "/", "/{first}", "/{first}/{second}" and some other shapes.
FirstSegs == {<<"1">>, <<"2">>, <<"9">>, <<"0", "1">>, <<"+", "1">>, <<"a">>, <<"-", "1">>}

SecondSegs == {<<>>, <<"0">>, <<"1">>, <<"9">>, <<"+", "0">>, <<"a">>}

Urls ==
  {<<"/">>} \cup {<<"/">> \o f : f \in FirstSegs}
    \cup {<<"/">> \o f \o <<"/">> \o g : f \in FirstSegs, g \in SecondSegs}
    \cup {<<>>, <<"?", "a">>, <<"/", "?", "a">>, <<"/", "1", "?", "a">>,
          <<"/", "%", "3", "1">>, <<"/", "/", "1">>, <<"/", "1", "/", "0", "/", "a">>,
          <<"/", "1", "/", "/", "0">>}

\* -------------------------------------------------------------- state
VARIABLES
  \* lib.rs: State
  name, symbol, owner, total_supply, tokens, token_approvals,
  operator_approvals, token_metadata, next_token_id, listings,
  \* the item store http.rs reads as state.nfts: id -> sequence of parts
  nfts,
  \* http.rs: HASHES, and the value last given to api::set_certified_data
  HASHES, certified_data,
  \* cfg!(mainnet) of the build
  mainnet,
  \* the outcome of the last call
  reply

regVars == <<name, symbol, owner, total_supply, tokens, token_approvals,
             operator_approvals, token_metadata, next_token_id, listings>>

certVars == <<nfts, HASHES, certified_data>>

vars == <<regVars, certVars, mainnet, reply>>

NoHeaders ==
  [ContentSecurityPolicy |-> None, ICCertificate |-> None,
   StrictTransportSecurity |-> None, ContentType |-> None]

\* One shape for every outcome; a trapped call has no response.
Reply(op, url, id, trapped, code, body, headers) ==
  [op |-> op, url |-> url, id |-> id, trapped |-> trapped,
   status_code |-> code, body |-> body, headers |-> headers]

Done(op, id) == Reply(op, <<>>, id, FALSE, 0, <<>>, NoHeaders)

Trapped(op, url, id) == Reply(op, url, id, TRUE, 0, <<>>, NoHeaders)

\* format!("Total NFTs: {}", n)
TotalNFTs(n) == <<"T", "o", "t", "a", "l", " ", "N", "F", "T", "s", ":", " ">> \o Dec(n)

\* ------------------------------------------------------- http.rs: add_hash
\* format!("/{}", tkid) and format!("/{}/{}", tkid, i)
ItemKey(tkid) == <<"/">> \o Dec(tkid)

PartKey(tkid, i) == <<"/">> \o Dec(tkid) \o <<"/">> \o Dec(i)

\* The loop of add_hash over nft.metadata.iter().enumerate(): position pos of
\* the sequence is index pos - 1 of the Vec.
RECURSIVE AddPartHashes(_, _, _, _, _)
AddPartHashes(hashes, tkid, metadata, pos, default) ==
  IF pos > Len(metadata) THEN hashes
  ELSE LET hash == Sha256(metadata[pos].data)
           h1 == RbInsert(hashes, PartKey(tkid, pos - 1), hash)
           first == ~default /\ metadata[pos].purpose = "Rendered"
           h2 == IF first THEN RbInsert(h1, ItemKey(tkid), hash) ELSE h1
       IN  AddPartHashes(h2, tkid, metadata, pos + 1, default \/ first)

\* Mutant of add_hash: the item count is taken from the tree as it was found.
add_hash_StaleCount(items, hashes, tkid) ==
  RbInsert(AddPartHashes(hashes, tkid, items[tkid], 1, FALSE),
           <<"/">>, Sha256(TotalNFTs(Cardinality(Entries(hashes)) \div 2)))

\* The tree add_hash(tkid) leaves, for an item that exists.
add_hash(items, hashes, tkid) ==
  RbInsert(AddPartHashes(hashes, tkid, items[tkid], 1, FALSE),
           <<"/">>, Sha256(TotalNFTs(Len(items))))

\* Mutant of Commitment: the root hash is published without its label.
Commitment_Unlabeled(hashes) == root_hash(hashes)

\* labeled_hash(b"http_assets", &hashes.root_hash())
Commitment(hashes) == labeled_hash(HttpAssetsLabel, root_hash(hashes))

\* -------------------------------------------------- http.rs: http_request
NoMetadataMsg == <<"N", "o", " ", "m", "e", "t", "a", "d", "a", "t", "a", " ", "f", "o", "r", " ", "t", "h", "i", "s", " ", "N", "F", "T">>

NoSuchPartMsg == <<"N", "o", " ", "s", "u", "c", "h", " ", "m", "e", "t", "a", "d", "a", "t", "a", " ", "p", "a", "r", "t">>

NoSuchNFTMsg == <<"N", "o", " ", "s", "u", "c", "h", " ", "N", "F", "T">>

\* format!("Invalid NFT ID {}", root) and format!("Invalid metadata ID {}", img)
InvalidNFTMsg(root) == <<"I", "n", "v", "a", "l", "i", "d", " ", "N", "F", "T", " ", "I", "D", " ">> \o root

InvalidMetadataMsg(img) == <<"I", "n", "v", "a", "l", "i", "d", " ", "m", "e", "t", "a", "d", "a", "t", "a", " ", "I", "D", " ">> \o img

CspValue == "default-src 'self' ; script-src 'none' ; frame-src 'none' ; object-src 'none'"

HstsValue == "max-age=31536000; includeSubDomains"

\* Mutants of DefaultIndex: the purpose is ignored; the fallback is the last part.
DefaultIndex_IgnoresPurpose(metadata) == IF Len(metadata) >= 1 THEN 1 ELSE 0

DefaultIndex_LastFallback(metadata) ==
  LET rendered == {i \in 1..Len(metadata) : metadata[i].purpose = "Rendered"}
  IN  IF rendered # {} THEN CHOOSE i \in rendered : \A j \in rendered : i <= j
      ELSE Len(metadata)

\* nft.metadata.iter().find(|x| x.purpose == Rendered).or_else(|| nft.metadata.get(0)):
\* the position of the default part, 0 when the item has no part.
DefaultIndex(metadata) ==
  LET rendered == {i \in 1..Len(metadata) : metadata[i].purpose = "Rendered"}
  IN  IF rendered # {} THEN CHOOSE i \in rendered : \A j \in rendered : i <= j
      ELSE IF Len(metadata) >= 1 THEN 1 ELSE 0

\* part.key_val_data.get("contentType") when it is a TextContent
ContentTypeOf(part) ==
  IF part.contentType # None /\ part.contentType[1].kind = "TextContent"
  THEN Some(part.contentType[1].val) ELSE None

Resolved(code, body, ctype) == [code |-> code, body |-> body, ctype |-> ctype]

\* Mutants of resolve: the part index is taken one too far; the part index is
\* examined before the item is looked up.
resolve_OffByOne(items, path) ==
  LET root == path[1]
      num == ParseUsize(root)
  IN  IF root = <<>> THEN Resolved(200, TotalNFTs(Len(items)), None)
      ELSE IF num = -1 THEN Resolved(400, InvalidNFTMsg(root), None)
      ELSE IF num \notin DOMAIN items THEN Resolved(404, NoSuchNFTMsg, None)
      ELSE LET metadata == items[num]
               img == IF Len(path) >= 2 THEN path[2] ELSE <<>>
               default == DefaultIndex(metadata)
               idx == ParseUsize(img)
           IN  IF img = <<>>
               THEN IF default = 0 THEN Resolved(200, NoMetadataMsg, None)
                    ELSE Resolved(200, metadata[default].data, ContentTypeOf(metadata[default]))
               ELSE IF idx = -1 THEN Resolved(400, InvalidMetadataMsg(img), None)
               ELSE IF idx \notin DOMAIN metadata THEN Resolved(404, NoSuchPartMsg, None)
               ELSE Resolved(200, metadata[idx].data, ContentTypeOf(metadata[idx]))

resolve_PartFirst(items, path) ==
  LET root == path[1]
      num == ParseUsize(root)
      img == IF Len(path) >= 2 THEN path[2] ELSE <<>>
      idx == ParseUsize(img)
  IN  IF root = <<>> THEN Resolved(200, TotalNFTs(Len(items)), None)
      ELSE IF num = -1 THEN Resolved(400, InvalidNFTMsg(root), None)
      ELSE IF img # <<>> /\ idx = -1 THEN Resolved(400, InvalidMetadataMsg(img), None)
      ELSE IF num \notin DOMAIN items THEN Resolved(404, NoSuchNFTMsg, None)
      ELSE LET metadata == items[num]
               default == DefaultIndex(metadata)
           IN  IF img = <<>>
               THEN IF default = 0 THEN Resolved(200, NoMetadataMsg, None)
                    ELSE Resolved(200, metadata[default].data, ContentTypeOf(metadata[default]))
               ELSE IF idx + 1 \notin DOMAIN metadata THEN Resolved(404, NoSuchPartMsg, None)
               ELSE Resolved(200, metadata[idx + 1].data, ContentTypeOf(metadata[idx + 1]))

\* The body of http_request from `let root = path.next()` on: path is the
\* sequence of percent-decoded segments of url[1..].
resolve(items, path) ==
  LET root == path[1]
      num == ParseUsize(root)
  IN  IF root = <<>> THEN Resolved(200, TotalNFTs(Len(items)), None)
      ELSE IF num = -1 THEN Resolved(400, InvalidNFTMsg(root), None)
      ELSE IF num \notin DOMAIN items THEN Resolved(404, NoSuchNFTMsg, None)
      ELSE LET metadata == items[num]
               img == IF Len(path) >= 2 THEN path[2] ELSE <<>>
               default == DefaultIndex(metadata)
               idx == ParseUsize(img)
           IN  IF img = <<>>
               THEN IF default = 0 THEN Resolved(200, NoMetadataMsg, None)
                    ELSE Resolved(200, metadata[default].data, ContentTypeOf(metadata[default]))
               ELSE IF idx = -1 THEN Resolved(400, InvalidMetadataMsg(img), None)
               ELSE IF idx + 1 \notin DOMAIN metadata THEN Resolved(404, NoSuchPartMsg, None)
               ELSE Resolved(200, metadata[idx + 1].data, ContentTypeOf(metadata[idx + 1]))

\* req.url.split('?').next()
UrlPath(url) == Head(Split(url, "?"))

\* url[1..].split('/').map(percent_decode_str), for a url that is not empty.
Segments(u) ==
  LET raw == Split(Tail(u), "/") IN [i \in 1..Len(raw) |-> PercentDecode(raw[i])]

\* witness(name): the labeled witness, CBOR-serialized and base64-encoded.
witness(hashes, u) == Base64(Cbor(Labeled(HttpAssetsLabel, RbWitness(hashes, u))))

\* api::data_certificate(): the host's certificate over the certified data;
\* none before any commitment was published.
data_certificate(certified) ==
  IF certified = None THEN None ELSE Some(<<"certificate", certified[1]>>)

\* ------------------------------------------------------------- actions
EmptyMap == [k \in {} |-> k]

MapPut(m, k, v) == [j \in DOMAIN m \cup {k} |-> IF j = k THEN v ELSE m[j]]

MapRemove(m, k) == [j \in DOMAIN m \ {k} |-> m[j]]

TotalParts(items) == LET RECURSIVE Sum(_)
                         Sum(i) == IF i = 0 THEN 0 ELSE Len(items[i]) + Sum(i - 1)
                     IN  Sum(Len(items))

\* The canister runs one call at a time (single-threaded, run to completion):
\* a call starts when the previous outcome has been handed to its caller.
NoReply == Done("none", 0)

Idle == reply = NoReply

Deliver ==
  /\ ~Idle
  /\ reply' = NoReply
  /\ UNCHANGED <<regVars, certVars, mainnet>>

Init ==
  /\ name = "MyNFT"
  /\ symbol = "MNFT"
  /\ owner = Some(Anonymous)
  /\ total_supply = 0
  /\ tokens = EmptyMap
  /\ token_approvals = EmptyMap
  /\ operator_approvals = EmptyMap
  /\ token_metadata = EmptyMap
  /\ next_token_id = 1
  /\ listings = EmptyMap
  /\ nfts = <<>>
  /\ HASHES = RbInsert(Nil, <<"/">>, Sha256(TotalNFTs(0)))
  /\ certified_data = None
  /\ mainnet \in BOOLEAN
  /\ reply = NoReply

\* add_hash(tkid): the part entries, the alias, the "/" entry, then the
\* commitment is published. An unknown id panics at unwrap().
AddHash(tkid) ==
  /\ Idle
  /\ IF tkid \in DOMAIN nfts
     THEN /\ HASHES' = add_hash(nfts, HASHES, tkid)
          /\ certified_data' = Some(Commitment(HASHES'))
          /\ reply' = Done("add_hash", tkid)
     ELSE /\ reply' = Trapped("add_hash", <<>>, tkid)
          /\ UNCHANGED <<HASHES, certified_data>>
  /\ UNCHANGED <<regVars, nfts, mainnet>>

\* Item creation with metadata parts: the item is stored under the next id
\* and add_hash runs for it before the call returns.
CreateItem(parts) ==
  /\ Idle
  /\ Len(nfts) < MaxItems
  /\ TotalParts(nfts) + Len(parts) <= MaxTotalParts
  /\ nfts' = Append(nfts, parts)
  /\ HASHES' = add_hash(nfts', HASHES, Len(nfts'))
  /\ certified_data' = Some(Commitment(HASHES'))
  /\ reply' = Done("create_item", Len(nfts'))
  /\ UNCHANGED <<regVars, mainnet>>

\* Append of one metadata part to an existing item, then add_hash for it.
AppendPart(tkid, part) ==
  /\ Idle
  /\ tkid \in DOMAIN nfts
  /\ TotalParts(nfts) < MaxTotalParts
  /\ nfts' = [nfts EXCEPT ![tkid] = Append(@, part)]
  /\ HASHES' = add_hash(nfts', HASHES, tkid)
  /\ certified_data' = Some(Commitment(HASHES'))
  /\ reply' = Done("append_part", tkid)
  /\ UNCHANGED <<regVars, mainnet>>

\* http_request: a query, so nothing but the reply changes. It traps when the
\* host has no certificate (unwrap) and when the url is empty (url[1..]).
Headers(certificate, tree, ctype) ==
  [ContentSecurityPolicy |-> Some(CspValue),
   ICCertificate |-> Some([certificate |-> Base64(certificate), tree |-> tree]),
   StrictTransportSecurity |-> IF mainnet THEN Some(HstsValue) ELSE None,
   ContentType |-> ctype]

\* Mutant of http_request: a served body is entered into the tree on the way.
http_request_Caching(url) ==
  /\ Idle
  /\ LET u == UrlPath(url)
         certificate == data_certificate(certified_data)
     IN  IF certificate = None \/ u = <<>>
         THEN reply' = Trapped("http_request", url, 0) /\ UNCHANGED HASHES
         ELSE LET r == resolve(nfts, Segments(u))
              IN  /\ reply' = Reply("http_request", url, 0, FALSE, r.code, r.body,
                                    Headers(certificate[1], witness(HASHES, u), r.ctype))
                  /\ HASHES' = IF r.code = 200 THEN RbInsert(HASHES, u, Sha256(r.body))
                               ELSE HASHES
  /\ UNCHANGED <<regVars, nfts, certified_data, mainnet>>

http_request(url) ==
  /\ Idle
  /\ LET u == UrlPath(url)
         certificate == data_certificate(certified_data)
     IN  IF certificate = None \/ u = <<>>
         THEN reply' = Trapped("http_request", url, 0)
         ELSE LET r == resolve(nfts, Segments(u))
              IN  reply' = Reply("http_request", url, 0, FALSE, r.code, r.body,
                                 Headers(certificate[1], witness(HASHES, u), r.ctype))
  /\ UNCHANGED <<regVars, certVars, mainnet>>

\* Mutant of Mint: the supply counter is left as it was.
Mint_NoSupply(to, metadata) ==
  /\ Idle
  /\ next_token_id <= MaxTokens
  /\ tokens' = MapPut(tokens, next_token_id, to)
  /\ token_metadata' = MapPut(token_metadata, next_token_id, metadata)
  /\ next_token_id' = next_token_id + 1
  /\ reply' = Done("mint", next_token_id)
  /\ UNCHANGED <<name, symbol, owner, total_supply, token_approvals, operator_approvals,
                 listings, certVars, mainnet>>

\* lib.rs: mint
Mint(to, metadata) ==
  /\ Idle
  /\ next_token_id <= MaxTokens
  /\ tokens' = MapPut(tokens, next_token_id, to)
  /\ token_metadata' = MapPut(token_metadata, next_token_id, metadata)
  /\ total_supply' = total_supply + 1
  /\ next_token_id' = next_token_id + 1
  /\ reply' = Done("mint", next_token_id)
  /\ UNCHANGED <<name, symbol, owner, token_approvals, operator_approvals, listings,
                 certVars, mainnet>>

\* ------------------------------------------------------ lib.rs: registry
\* The outcome of a registry update: Ok(()) or Err(error), with the call's
\* caller and arguments.
Result(op, caller, from, id, result) ==
  [op |-> op, caller |-> caller, from |-> from, id |-> id,
   trapped |-> FALSE, result |-> result]

\* return Err(error): nothing was written before the return.
Fail(r) == reply' = r /\ UNCHANGED regVars

\* isApprovedForAllInternal
isApprovedForAllInternal(approvals, holder, operator) ==
  holder \in DOMAIN approvals /\ operator \in approvals[holder]

\* Mutant of TransferFromBody: the listing of the token is left in place.
TransferFromBody_KeepsListing(op, caller, from, to, token_id) ==
  LET r(x) == Result(op, caller, from, token_id, x)
  IN  IF token_id \notin DOMAIN tokens THEN Fail(r("InvalidTokenId"))
      ELSE IF /\ tokens[token_id] # from
              /\ ~isApprovedForAllInternal(operator_approvals, from, caller)
              /\ ~(token_id \in DOMAIN token_approvals /\ token_approvals[token_id] = caller)
           THEN Fail(r("Unauthorized"))
      ELSE IF to = Anonymous THEN Fail(r("ZeroAddress"))
      ELSE /\ tokens' = MapPut(tokens, token_id, to)
           /\ token_approvals' = MapRemove(token_approvals, token_id)
           /\ reply' = r("Ok")
           /\ UNCHANGED <<name, symbol, owner, total_supply, operator_approvals,
                          token_metadata, next_token_id, listings>>

\* The body of transferFrom (lib.rs 161-177), which safeTransferFrom calls too.
TransferFromBody(op, caller, from, to, token_id) ==
  LET r(x) == Result(op, caller, from, token_id, x)
  IN  IF token_id \notin DOMAIN tokens THEN Fail(r("InvalidTokenId"))
      ELSE IF /\ tokens[token_id] # from
              /\ ~isApprovedForAllInternal(operator_approvals, from, caller)
              /\ ~(token_id \in DOMAIN token_approvals /\ token_approvals[token_id] = caller)
           THEN Fail(r("Unauthorized"))
      ELSE IF to = Anonymous THEN Fail(r("ZeroAddress"))
      ELSE /\ tokens' = MapPut(tokens, token_id, to)
           /\ token_approvals' = MapRemove(token_approvals, token_id)
           /\ listings' = MapRemove(listings, token_id)
           /\ reply' = r("Ok")
           /\ UNCHANGED <<name, symbol, owner, total_supply, operator_approvals,
                          token_metadata, next_token_id>>

transferFrom(caller, from, to, token_id) ==
  /\ Idle
  /\ TransferFromBody("transferFrom", caller, from, to, token_id)
  /\ UNCHANGED <<certVars, mainnet>>

safeTransferFrom(caller, from, to, token_id) ==
  /\ Idle
  /\ IF to = Anonymous
     THEN Fail(Result("safeTransferFrom", caller, from, token_id, "ZeroAddress"))
     ELSE TransferFromBody("safeTransferFrom", caller, from, to, token_id)
  /\ UNCHANGED <<certVars, mainnet>>

approve(caller, approved, token_id) ==
  /\ Idle
  /\ LET r(x) == Result("approve", caller, caller, token_id, x)
     IN  IF token_id \notin DOMAIN tokens THEN Fail(r("InvalidTokenId"))
         ELSE IF /\ tokens[token_id] # caller
                 /\ ~isApprovedForAllInternal(operator_approvals, tokens[token_id], caller)
              THEN Fail(r("Unauthorized"))
         ELSE /\ token_approvals' = MapPut(token_approvals, token_id, approved)
              /\ reply' = r("Ok")
              /\ UNCHANGED <<name, symbol, owner, total_supply, tokens, operator_approvals,
                             token_metadata, next_token_id, listings>>
  /\ UNCHANGED <<certVars, mainnet>>

\* entry(owner).or_default() leaves an entry for the caller, be it empty.
setApprovalForAll(caller, operator, approved) ==
  /\ Idle
  /\ reply' = Result("setApprovalForAll", caller, caller, 0, "Ok")
  /\ IF caller = operator THEN UNCHANGED operator_approvals
     ELSE LET operators == IF caller \in DOMAIN operator_approvals
                           THEN operator_approvals[caller] ELSE {}
          IN  operator_approvals' =
                MapPut(operator_approvals, caller,
                       IF approved THEN operators \cup {operator} ELSE operators \ {operator})
  /\ UNCHANGED <<name, symbol, owner, total_supply, tokens, token_approvals,
                 token_metadata, next_token_id, listings, certVars, mainnet>>

listItem(caller, token_id, price) ==
  /\ Idle
  /\ LET r(x) == Result("listItem", caller, caller, token_id, x)
     IN  IF token_id \notin DOMAIN tokens THEN Fail(r("InvalidTokenId"))
         ELSE IF tokens[token_id] # caller THEN Fail(r("Unauthorized"))
         ELSE IF token_id \in DOMAIN listings THEN Fail(r("AlreadyListedForSale"))
         ELSE /\ listings' = MapPut(listings, token_id, [seller |-> caller, price |-> price])
              /\ reply' = r("Ok")
              /\ UNCHANGED <<name, symbol, owner, total_supply, tokens, token_approvals,
                             operator_approvals, token_metadata, next_token_id>>
  /\ UNCHANGED <<certVars, mainnet>>

delistItem(caller, token_id) ==
  /\ Idle
  /\ LET r(x) == Result("delistItem", caller, caller, token_id, x)
     IN  IF token_id \notin DOMAIN listings THEN Fail(r("NotListedForSale"))
         ELSE IF listings[token_id].seller # caller THEN Fail(r("Unauthorized"))
         ELSE /\ listings' = MapRemove(listings, token_id)
              /\ reply' = r("Ok")
              /\ UNCHANGED <<name, symbol, owner, total_supply, tokens, token_approvals,
                             operator_approvals, token_metadata, next_token_id>>
  /\ UNCHANGED <<certVars, mainnet>>

\* Mutant of transferFromInternal: the approval of the token is left in place.
transferFromInternal_KeepsApproval(owners, approvals, from, to, token_id) ==
  IF token_id \notin DOMAIN owners
  THEN [result |-> "InvalidTokenId", tokens |-> owners, token_approvals |-> approvals]
  ELSE IF owners[token_id] # from
  THEN [result |-> "Unauthorized", tokens |-> owners, token_approvals |-> approvals]
  ELSE IF to = Anonymous
  THEN [result |-> "ZeroAddress", tokens |-> owners, token_approvals |-> approvals]
  ELSE [result |-> "Ok", tokens |-> MapPut(owners, token_id, to),
        token_approvals |-> approvals]

\* transferFromInternal: its result, and state.tokens and state.token_approvals
\* as it leaves them.
transferFromInternal(owners, approvals, from, to, token_id) ==
  IF token_id \notin DOMAIN owners
  THEN [result |-> "InvalidTokenId", tokens |-> owners, token_approvals |-> approvals]
  ELSE IF owners[token_id] # from
  THEN [result |-> "Unauthorized", tokens |-> owners, token_approvals |-> approvals]
  ELSE IF to = Anonymous
  THEN [result |-> "ZeroAddress", tokens |-> owners, token_approvals |-> approvals]
  ELSE [result |-> "Ok", tokens |-> MapPut(owners, token_id, to),
        token_approvals |-> MapRemove(approvals, token_id)]

\* Mutants of buyItem: the seller may buy; the listing is removed before the
\* transfer is tried.
buyItem_NoSelfCheck(caller, token_id) ==
  /\ Idle
  /\ IF token_id \notin DOMAIN listings
     THEN Fail(Result("buyItem", caller, caller, token_id, "NotListedForSale"))
     ELSE LET seller == listings[token_id].seller
              r(x) == Result("buyItem", caller, seller, token_id, x)
              t == transferFromInternal(tokens, token_approvals, seller, caller, token_id)
          IN  IF t.result # "Ok" THEN Fail(r(t.result))
              ELSE /\ tokens' = t.tokens
                   /\ token_approvals' = t.token_approvals
                   /\ listings' = MapRemove(listings, token_id)
                   /\ reply' = r("Ok")
                   /\ UNCHANGED <<name, symbol, owner, total_supply, operator_approvals,
                                  token_metadata, next_token_id>>
  /\ UNCHANGED <<certVars, mainnet>>

buyItem_DelistsFirst(caller, token_id) ==
  /\ Idle
  /\ IF token_id \notin DOMAIN listings
     THEN Fail(Result("buyItem", caller, caller, token_id, "NotListedForSale"))
     ELSE LET seller == listings[token_id].seller
              r(x) == Result("buyItem", caller, seller, token_id, x)
              t == transferFromInternal(tokens, token_approvals, seller, caller, token_id)
          IN  IF seller = caller THEN Fail(r("CannotBuyOwnNFT"))
              ELSE /\ tokens' = t.tokens
                   /\ token_approvals' = t.token_approvals
                   /\ listings' = MapRemove(listings, token_id)
                   /\ reply' = r(t.result)
                   /\ UNCHANGED <<name, symbol, owner, total_supply, operator_approvals,
                                  token_metadata, next_token_id>>
  /\ UNCHANGED <<certVars, mainnet>>

\* buyItem: the `?` after transferFromInternal returns its error before the
\* listing is removed.
buyItem(caller, token_id) ==
  /\ Idle
  /\ IF token_id \notin DOMAIN listings
     THEN Fail(Result("buyItem", caller, caller, token_id, "NotListedForSale"))
     ELSE LET seller == listings[token_id].seller
              r(x) == Result("buyItem", caller, seller, token_id, x)
              t == transferFromInternal(tokens, token_approvals, seller, caller, token_id)
          IN  IF seller = caller THEN Fail(r("CannotBuyOwnNFT"))
              ELSE IF t.result # "Ok" THEN Fail(r(t.result))
              ELSE /\ tokens' = t.tokens
                   /\ token_approvals' = t.token_approvals
                   /\ listings' = MapRemove(listings, token_id)
                   /\ reply' = r("Ok")
                   /\ UNCHANGED <<name, symbol, owner, total_supply, operator_approvals,
                                  token_metadata, next_token_id>>
  /\ UNCHANGED <<certVars, mainnet>>

\* setName / setSymbol: state.owner.expect("REASON") panics on None.
setName(caller, new_name) ==
  /\ Idle
  /\ LET r(x) == Result("setName", caller, caller, 0, x)
     IN  IF owner = None
         THEN reply' = Trapped("setName", <<>>, 0) /\ UNCHANGED regVars
         ELSE IF caller = owner[1]
         THEN /\ name' = new_name
              /\ reply' = r("Ok")
              /\ UNCHANGED <<symbol, owner, total_supply, tokens, token_approvals,
                             operator_approvals, token_metadata, next_token_id, listings>>
         ELSE Fail(r("Unauthorized"))
  /\ UNCHANGED <<certVars, mainnet>>

setSymbol(caller, new_symbol) ==
  /\ Idle
  /\ LET r(x) == Result("setSymbol", caller, caller, 0, x)
     IN  IF owner = None
         THEN reply' = Trapped("setSymbol", <<>>, 0) /\ UNCHANGED regVars
         ELSE IF caller = owner[1]
         THEN /\ symbol' = new_symbol
              /\ reply' = r("Ok")
              /\ UNCHANGED <<name, owner, total_supply, tokens, token_approvals,
                             operator_approvals, token_metadata, next_token_id, listings>>
         ELSE Fail(r("Unauthorized"))
  /\ UNCHANGED <<certVars, mainnet>>

\* The arguments the registry calls are made with.
TokenIds == 1..MaxTokens

\* The principals named as operator and as approved principal.
Operators == {"bob"}

Prices == {5}

NewNames == {"Renamed"}

NewSymbols == {"RNM"}

\* ------------------------------------------------------- specifications
\* The certified asset path: content mutations and reads.
Next ==
  \/ \E parts \in PartSeqs(MaxTotalParts) : CreateItem(parts)
  \/ \E tkid \in 1..MaxItems, part \in PartInputs : AppendPart(tkid, part)
  \/ \E tkid \in 1..(MaxItems + 1) : AddHash(tkid)
  \/ \E url \in Urls : http_request(url)
  \/ Deliver

Spec == Init /\ [][Next]_vars

\* The registry of lib.rs.
NextRegistry ==
  \/ \E to \in Principals, metadata \in Metadatas : Mint(to, metadata)
  \/ \E caller, from, to \in Principals, token_id \in TokenIds :
       transferFrom(caller, from, to, token_id)
  \/ \E caller, from, to \in Principals, token_id \in TokenIds :
       safeTransferFrom(caller, from, to, token_id)
  \/ \E caller \in Principals, approved \in Operators, token_id \in TokenIds :
       approve(caller, approved, token_id)
  \/ \E caller \in Principals, operator \in Operators, approved \in BOOLEAN :
       setApprovalForAll(caller, operator, approved)
  \/ \E caller \in Principals, token_id \in TokenIds, price \in Prices :
       listItem(caller, token_id, price)
  \/ \E caller \in Principals, token_id \in TokenIds : delistItem(caller, token_id)
  \/ \E caller \in Principals, token_id \in TokenIds : buyItem(caller, token_id)
  \/ \E caller \in Principals, new_name \in NewNames : setName(caller, new_name)
  \/ \E caller \in Principals, new_symbol \in NewSymbols : setSymbol(caller, new_symbol)
  \/ Deliver

\* The registry reads no build flag: it is followed in the development build.
InitRegistry == Init /\ ~mainnet

SpecRegistry == InitRegistry /\ [][NextRegistry]_vars

\* The token and marketplace calls of lib.rs: the registry without the renames.
NextMarket ==
  \/ \E to \in Principals, metadata \in Metadatas : Mint(to, metadata)
  \/ \E caller, from, to \in Principals, token_id \in TokenIds :
       transferFrom(caller, from, to, token_id)
  \/ \E caller, from, to \in Principals, token_id \in TokenIds :
       safeTransferFrom(caller, from, to, token_id)
  \/ \E caller \in Principals, approved \in Operators, token_id \in TokenIds :
       approve(caller, approved, token_id)
  \/ \E caller \in Principals, operator \in Operators, approved \in BOOLEAN :
       setApprovalForAll(caller, operator, approved)
  \/ \E caller \in Principals, token_id \in TokenIds, price \in Prices :
       listItem(caller, token_id, price)
  \/ \E caller \in Principals, token_id \in TokenIds : delistItem(caller, token_id)
  \/ \E caller \in Principals, token_id \in TokenIds : buyItem(caller, token_id)
  \/ Deliver

SpecMarket == InitRegistry /\ [][NextMarket]_vars

\* ---------------------------------------------------------------- claims
\* A response of http_request: the call replied (it did not trap).
Response == reply.op = "http_request" /\ ~reply.trapped

\* A mutation that ran add_hash to its end for item reply.id.
Hashed == reply.op \in {"add_hash", "create_item", "append_part"} /\ ~reply.trapped

\* An optional '+' followed by one or more decimal digits.
NonNegInt(seg) ==
  LET d == IF seg # <<>> /\ Head(seg) = "+" THEN Tail(seg) ELSE seg
  IN  d # <<>> /\ \A i \in 1..Len(d) : IsDigit(d[i])

IntOf(seg) == DigitsValue(IF Head(seg) = "+" THEN Tail(seg) ELSE seg, 0)

HasRendered(metadata) == \E i \in 1..Len(metadata) : metadata[i].purpose = "Rendered"

FirstRendered(metadata) ==
  CHOOSE i \in 1..Len(metadata) :
    /\ metadata[i].purpose = "Rendered"
    /\ \A j \in 1..(i - 1) : metadata[j].purpose # "Rendered"

\* C1: for every path that http_request serves (status 200), the hash bound to
\* that exact path in HASHES is the SHA-256 of the body returned; no served
\* path has a missing or stale tree entry.
C1_ServedPathsCertified ==
  (Response /\ reply.status_code = 200)
    => RbGet(HASHES, UrlPath(reply.url)) = Some(Sha256(reply.body))

\* C2: when a mutation entry point (mint, item creation, append of a part) has
\* returned, the tree holds the "/" entry of the body served at "/" and the
\* commitment of the current tree root has been published.
C2_MutationPublishes ==
  (reply.op \in {"mint", "create_item", "append_part"} /\ ~reply.trapped)
    => /\ RbGet(HASHES, <<"/">>) = Some(Sha256(TotalNFTs(Len(nfts))))
       /\ certified_data = Some(Commitment(HASHES))

\* C3: after add_hash(id) for an item with at least one part, the alias entry
\* "/{id}" is bound to the SHA-256 of the default part the resolver serves:
\* the first Rendered part, else the part at index 0.
C3_AliasBoundToDefault ==
  (Hashed /\ Len(nfts[reply.id]) >= 1)
    => RbGet(HASHES, ItemKey(reply.id))
         = Some(Sha256(nfts[reply.id][DefaultIndex(nfts[reply.id])].data))

\* C4: a response to "/{id}" for an existing item has status 200 and carries the
\* bytes of the first Rendered part; with no Rendered part, the bytes of the
\* part at index 0; with no part at all, "No metadata for this NFT".
C4_DefaultPartServed ==
  \A id \in DOMAIN nfts :
    (Response /\ reply.url = <<"/">> \o Dec(id))
      => /\ reply.status_code = 200
         /\ reply.body = IF nfts[id] = <<>> THEN NoMetadataMsg
                         ELSE IF HasRendered(nfts[id])
                              THEN nfts[id][FirstRendered(nfts[id])].data
                         ELSE nfts[id][1].data

\* A response to "/1" that serves a Rendered part standing behind a Preview part.
C4_Witness ==
  /\ Response /\ reply.url = <<"/", "1">>
  /\ Len(nfts) >= 1 /\ Len(nfts[1]) = 2
  /\ nfts[1][1].purpose = "Preview" /\ nfts[1][2].purpose = "Rendered"
  /\ nfts[1][1].data # nfts[1][2].data
  /\ reply.body = nfts[1][2].data

\* C5: appending a part that is not Rendered to an item that already has a part
\* changes neither the part served at "/{id}" nor the alias entry; appending a
\* Rendered part to an item with no Rendered part makes the new part the one
\* served at "/{id}" and the one the alias entry is bound to.
C5_TieBreakStable ==
  [][\A id \in DOMAIN nfts :
       (id \in DOMAIN nfts' /\ Len(nfts'[id]) = Len(nfts[id]) + 1)
         => LET old == nfts[id]
                new == nfts'[id]
                part == new[Len(new)]
            IN  /\ (part.purpose # "Rendered" /\ Len(old) >= 1)
                     => /\ DefaultIndex(new) = DefaultIndex(old)
                        /\ resolve(nfts', <<Dec(id)>>) = resolve(nfts, <<Dec(id)>>)
                        /\ RbGet(HASHES', ItemKey(id)) = RbGet(HASHES, ItemKey(id))
                /\ (part.purpose = "Rendered" /\ ~HasRendered(old))
                     => /\ DefaultIndex(new) = Len(new)
                        /\ resolve(nfts', <<Dec(id)>>).body = part.data
                        /\ RbGet(HASHES', ItemKey(id)) = Some(Sha256(part.data))
    ]_vars

\* A Rendered part has just been appended to an item that had one Preview part.
C5_Witness ==
  /\ reply.op = "append_part"
  /\ Len(nfts[reply.id]) = 2
  /\ nfts[reply.id][1].purpose = "Preview" /\ nfts[reply.id][2].purpose = "Rendered"
  /\ nfts[reply.id][1].data # nfts[reply.id][2].data

\* C6: a response to "/{id}/{partIndex}" for an existing item: status 400 when
\* partIndex is no non-negative integer; status 404 with "No such metadata
\* part" when it is one but indexes no part; else status 200 with that part's
\* bytes.
C6_PartPath ==
  \A id \in DOMAIN nfts, seg \in SecondSegs \ {<<>>} :
    (Response /\ reply.url = <<"/">> \o Dec(id) \o <<"/">> \o seg)
      => IF ~NonNegInt(seg) THEN reply.status_code = 400
         ELSE IF IntOf(seg) >= Len(nfts[id])
              THEN reply.status_code = 404 /\ reply.body = NoSuchPartMsg
         ELSE reply.status_code = 200 /\ reply.body = nfts[id][IntOf(seg) + 1].data

\* A response to "/1/1" that serves the second part of item 1.
C6_Witness ==
  /\ Response /\ reply.url = <<"/", "1", "/", "1">>
  /\ Len(nfts) >= 1 /\ Len(nfts[1]) = 2 /\ nfts[1][1].data # nfts[1][2].data
  /\ reply.status_code = 200 /\ reply.body = nfts[1][2].data

\* C7: a response to a path whose first segment is not empty: status 400 with
\* "Invalid NFT ID {segment}" when the segment is no non-negative integer;
\* status 404 with "No such NFT" when it is one but names no item; whatever
\* follows the first segment.
C7_IdValidation ==
  (Response /\ Segments(UrlPath(reply.url))[1] # <<>>)
    => LET first == Segments(UrlPath(reply.url))[1]
       IN  /\ ~NonNegInt(first)
                => reply.status_code = 400 /\ reply.body = InvalidNFTMsg(first)
           /\ (NonNegInt(first) /\ IntOf(first) \notin 1..Len(nfts))
                => reply.status_code = 404 /\ reply.body = NoSuchNFTMsg

\* A response to "/9/a": the unknown id is reported, not the bad part index.
C7_Witness ==
  /\ Response /\ reply.url = <<"/", "9", "/", "a">>
  /\ reply.status_code = 404 /\ reply.body = NoSuchNFTMsg

\* C8: a read made while the host has no certificate (nothing was ever
\* published) completes with status 200, 400 or 404 and carries no
\* certificate.
C8_ServedWithoutCertificate ==
  (reply.op = "http_request" /\ certified_data = None /\ UrlPath(reply.url) # <<>>)
    => /\ ~reply.trapped
       /\ reply.status_code \in {200, 400, 404}
       /\ reply.headers.ICCertificate = None

\* The tree that holds a set of (key, value) pairs when they are put in
\* ascending order of their keys.
RECURSIVE TreeOf(_)
TreeOf(entries) ==
  IF entries = {} THEN Nil
  ELSE LET last == CHOOSE e \in entries : \A f \in entries : Cmp(f[1], e[1]) <= 0
       IN  RbInsert(TreeOf(entries \ {last}), last[1], last[2])

\* C9: root_hash() depends only on the set of (path, hash) pairs the tree holds:
\* it is the root hash of any other sequence of puts that ends with that set,
\* here the puts in ascending order of the paths.
C9_RootDeterminism == root_hash(HASHES) = root_hash(TreeOf(Entries(HASHES)))

\* C10: putting a (path, hash) pair the tree already holds changes neither its
\* entries nor its root hash (stated for every tree, in the states that are
\* not the outcome of a read, which leaves the tree alone); and add_hash(id)
\* run again right after it ran leaves the tree and the published commitment
\* as they are.
C10_Idempotent ==
  /\ reply.op # "http_request"
       => \A e \in Entries(HASHES) :
            LET again == RbInsert(HASHES, e[1], e[2])
            IN  Entries(again) = Entries(HASHES) /\ root_hash(again) = root_hash(HASHES)
  /\ Hashed
       => /\ add_hash(nfts, HASHES, reply.id) = HASHES
          /\ Some(Commitment(add_hash(nfts, HASHES, reply.id))) = certified_data

\* add_hash has run for an item with two parts, one of them Rendered.
C10_Witness ==
  /\ Hashed
  /\ Len(nfts[reply.id]) = 2 /\ HasRendered(nfts[reply.id])
  /\ certified_data = Some(Commitment(HASHES))

\* C11: the value registered with the host is never anything but
\* labeled_hash("http_assets", root_hash()) of the tree as it stands when it is
\* registered; and once a commitment has been published, the published
\* commitment is that labeled hash of the current tree root after every call.
C11_CommitmentIsLabeledRoot ==
  [][/\ certified_data' # certified_data
          => certified_data' = Some(labeled_hash(HttpAssetsLabel, root_hash(HASHES')))
     /\ certified_data' # None
          => certified_data' = Some(labeled_hash(HttpAssetsLabel, root_hash(HASHES')))
    ]_vars

\* A commitment is published over a tree that holds an item's part entries.
C11_Witness ==
  /\ Hashed
  /\ certified_data # None
  /\ Cardinality(Entries(HASHES)) >= 3

\* C12: a read changes nothing: across every http_request step, whatever it
\* answers, the registry state, the items, the hash tree and the published
\* commitment are the same before and after.
C12_ReadHasNoEffect ==
  [][reply'.op = "http_request" => UNCHANGED <<regVars, certVars>>]_vars

\* A read of "/1" answered with 200 while the tree holds the item's entries.
C12_Witness ==
  /\ Response /\ reply.status_code = 200
  /\ reply.url = <<"/", "1">>
  /\ Len(nfts) >= 1 /\ Len(nfts[1]) >= 1
  /\ certified_data = Some(Commitment(HASHES))

\* The content-security-policy value the specification names.
SpecCspValue == "default-src 'self'; script-src 'none'; frame-src 'none'; object-src 'none'"

\* C13: every response, whatever its status, carries the content-security-policy
\* header with exactly the value default-src 'self'; script-src 'none';
\* frame-src 'none'; object-src 'none', and the certification header with a
\* certificate and a tree; strict-transport-security is present exactly in
\* production mode.
C13_SecurityHeaders ==
  Response
    => /\ reply.status_code \in {200, 400, 404}
       /\ reply.headers.ContentSecurityPolicy = Some(SpecCspValue)
       /\ reply.headers.ICCertificate # None
       /\ reply.headers.ICCertificate[1].certificate[1] = "base64"
       /\ reply.headers.ICCertificate[1].tree[1] = "base64"
       /\ (reply.headers.StrictTransportSecurity # None) <=> mainnet

\* What a verifier reads in a hash tree: its nodes from left to right.
RECURSIVE Flatten(_)
Flatten(t) ==
  CASE t[1] = "Empty" -> <<>>
    [] t[1] = "Fork" -> Flatten(t[2]) \o Flatten(t[3])
    [] OTHER -> <<t>>

Found(v) == <<"Found", v>>

\* The verifier's lookup of a path: the value under its label; "Absent" when
\* the labels next below and next above the path stand side by side (or at
\* the ends of the tree), so that no pruned node can hide it; else "Unknown".
VerifierLookup(t, key) ==
  LET f == Flatten(t)
      hit == {i \in 1..Len(f) : f[i][1] = "Labeled" /\ f[i][2] = key}
      below == {i \in 1..Len(f) : f[i][1] = "Labeled" /\ Cmp(f[i][2], key) < 0}
      above == {i \in 1..Len(f) : f[i][1] = "Labeled" /\ Cmp(f[i][2], key) > 0}
      lo == IF below = {} THEN 0 ELSE CHOOSE i \in below : \A j \in below : j <= i
      hi == IF above = {} THEN Len(f) + 1 ELSE CHOOSE i \in above : \A j \in above : i <= j
  IN  IF hit # {}
      THEN LET n == f[CHOOSE i \in hit : TRUE]
           IN  IF n[3][1] = "Leaf" THEN Found(n[3][2]) ELSE <<"Unknown">>
      ELSE IF hi = lo + 1 THEN <<"Absent">> ELSE <<"Unknown">>

\* Every tree an attacker gets by putting node x in the place of one node of t.
RECURSIVE Replacements(_, _)
Replacements(t, x) ==
  {x} \cup
  (CASE t[1] = "Fork" ->
          {Fork(l, t[3]) : l \in Replacements(t[2], x)}
            \cup {Fork(t[2], r) : r \in Replacements(t[3], x)}
     [] t[1] = "Labeled" -> {Labeled(t[2], c) : c \in Replacements(t[3], x)}
     [] OTHER -> {})

\* The hashes an attacker passes off: of the body served, and of other bytes.
FabricatedHashes == {Sha256(reply.body), Sha256(<<"z">>)}

\* The tree of the certification header of the response.
ServedTree == reply.headers.ICCertificate[1].tree[2][2]

\* C14: between calls, for every path the tree holds, the witness reveals the hash bound to it
\* and recomputes to root_hash(); for a path the tree does not hold, the witness
\* recomputes to root_hash(), shows the path absent, and no tree that holds a
\* fabricated hash under that path in the place of one of its nodes recomputes
\* to root_hash(). The tree served with a response recomputes to the published
\* commitment.
C14_WitnessSound ==
  /\ Idle
       => \A e \in Entries(HASHES) :
            LET w == RbWitness(HASHES, e[1])
            IN  reconstruct(w) = root_hash(HASHES) /\ VerifierLookup(w, e[1]) = Found(e[2])
  /\ Response
       => LET u == UrlPath(reply.url)
              w == ServedTree[3]
          IN  /\ ServedTree[1] = "Labeled" /\ ServedTree[2] = HttpAssetsLabel
              /\ Some(reconstruct(ServedTree)) = certified_data
              /\ reconstruct(w) = root_hash(HASHES)
              /\ RbGet(HASHES, u) # None => VerifierLookup(w, u) = Found(RbGet(HASHES, u)[1])
              /\ RbGet(HASHES, u) = None
                   => /\ VerifierLookup(w, u) = <<"Absent">>
                      /\ \A h \in FabricatedHashes :
                           \A forged \in Replacements(w, Labeled(u, Leaf(h))) :
                             reconstruct(forged) # root_hash(HASHES)

\* A response to "/1/1" for an item with one part: the path is not bound while the
\* entry "/1/0" is, and the witness shows it absent.
C14_Witness ==
  /\ Response /\ reply.url = <<"/", "1", "/", "1">>
  /\ RbGet(HASHES, <<"/", "1", "/", "0">>) # None
  /\ RbGet(HASHES, <<"/", "1", "/", "1">>) = None
  /\ VerifierLookup(ServedTree[3], <<"/", "1", "/", "1">>) = <<"Absent">>


\* The outcome of a registry update op that returned Ok(()).
Succeeded(r, ops) == r.op \in ops /\ r.result = "Ok"

\* C15: a transferFromDip721 call on an existing token changes its owner only
\* if `from` is the token's owner and the caller is that owner, an operator
\* the owner approved for all, or the principal approved for the token; every
\* other call returns Unauthorized and leaves the owners as they are.
C15_TransferAuthorized ==
  [][(reply'.op = "transferFrom" /\ reply'.id \in DOMAIN tokens)
       => LET id == reply'.id
              caller == reply'.caller
              authorized ==
                /\ reply'.from = tokens[id]
                /\ \/ caller = tokens[id]
                   \/ isApprovedForAllInternal(operator_approvals, tokens[id], caller)
                   \/ (id \in DOMAIN token_approvals /\ token_approvals[id] = caller)
          IN  ~authorized => reply'.result = "Unauthorized" /\ tokens' = tokens
    ]_vars

\* C16: every entry of listings refers to a token that exists, and its seller
\* is the owner of that token.
C16_ListingConsistent ==
  \A id \in DOMAIN listings :
    id \in DOMAIN tokens /\ listings[id].seller = tokens[id]

\* Token 2 has just changed hands while token 1 stands listed by its owner.
C16_Witness ==
  /\ Succeeded(reply, {"transferFrom", "safeTransferFrom", "buyItem"})
  /\ reply.id = 2
  /\ 1 \in DOMAIN listings /\ listings[1].seller = tokens[1]

\* C17: after a transferFromDip721, safeTransferFromDip721 or buyItem call that
\* returned Ok, the token has no per-token approval and no listing.
C17_TransferClears ==
  [][Succeeded(reply', {"transferFrom", "safeTransferFrom", "buyItem"})
       => /\ reply'.id \notin DOMAIN token_approvals'
          /\ reply'.id \notin DOMAIN listings'
    ]_vars

\* A listed token was bought while another token carries an approval.
C17_Witness ==
  /\ Succeeded(reply, {"buyItem"})
  /\ reply.id \notin DOMAIN token_approvals /\ reply.id \notin DOMAIN listings
  /\ token_approvals # EmptyMap
  /\ tokens[reply.id] = reply.caller

\* C18: buyItem(id) returns Ok only when id is listed and the caller is not the
\* seller, and then the token goes from the seller to the caller and the
\* listing is removed; it returns NotListedForSale when id is not listed and
\* CannotBuyOwnNFT when the caller is the seller.
C18_BuyItem ==
  [][reply'.op = "buyItem"
       => LET id == reply'.id
              caller == reply'.caller
          IN  /\ reply'.result = "Ok"
                   => /\ id \in DOMAIN listings
                      /\ listings[id].seller # caller
                      /\ tokens[id] = listings[id].seller
                      /\ tokens' = MapPut(tokens, id, caller)
                      /\ id \notin DOMAIN listings'
              /\ id \notin DOMAIN listings => reply'.result = "NotListedForSale"
              /\ (id \in DOMAIN listings /\ listings[id].seller = caller)
                   => reply'.result = "CannotBuyOwnNFT"
    ]_vars

\* bob has bought token 1 from another principal.
C18_Witness ==
  /\ Succeeded(reply, {"buyItem"})
  /\ reply.id = 1 /\ reply.caller = "bob" /\ reply.from # "bob"
  /\ tokens[1] = "bob" /\ 1 \notin DOMAIN listings

\* total_supply counts the tokens, the ids are 1..total_supply, the next id is
\* the one after them, and every token has its metadata.
SupplyInv ==
  /\ total_supply = Cardinality(DOMAIN tokens)
  /\ next_token_id = total_supply + 1
  /\ DOMAIN tokens = 1..total_supply
  /\ DOMAIN tokens \subseteq DOMAIN token_metadata

\* C19: total_supply equals the number of tokens and next_token_id - 1; a mint
\* returns the id after the last one returned (1, 2, 3, ...), never an id that
\* exists; every token has a metadata entry; and no call but mint changes
\* total_supply or next_token_id.
C19_Supply ==
  [][/\ SupplyInv /\ SupplyInv'
     /\ reply'.op = "mint"
          => /\ reply'.id = total_supply + 1
             /\ reply'.id \notin DOMAIN tokens
             /\ reply'.id \in DOMAIN tokens'
             /\ total_supply' = total_supply + 1
     /\ reply'.op # "mint" => UNCHANGED <<total_supply, next_token_id>>
    ]_vars

\* The second mint has returned id 2.
C19_Witness ==
  /\ reply.op = "mint" /\ reply.id = 2
  /\ total_supply = 2 /\ next_token_id = 3
  /\ DOMAIN tokens = {1, 2}

\* The registry updates that C20 names.
FallibleUpdates ==
  {"transferFrom", "safeTransferFrom", "approve", "listItem", "delistItem",
   "buyItem", "setName", "setSymbol"}

\* C20: a registry update that returns an Err leaves the whole State as it was.
C20_ErrLeavesState ==
  [][(reply'.op \in FallibleUpdates /\ ~reply'.trapped /\ reply'.result # "Ok")
       => UNCHANGED regVars
    ]_vars

\* buyItem failed inside transferFromInternal: the anonymous principal tried
\* to buy a listed token, and the listing is still there.
C20_Witness ==
  /\ reply.op = "buyItem" /\ reply.result = "ZeroAddress"
  /\ reply.caller = Anonymous
  /\ reply.id \in DOMAIN listings


=============================================================================
